---- MODULE Spec2Model ----
(***************************************************************************)
(* Media transformation pipeline of ker-win/tool: video_splitter.py (Split *)
(* runs) and enhance_video.py (Enhance runs), and the folder               *)
(* reorganisation of move_data.py (Move runs).                             *)
(*                                                                         *)
(* A path is a record [parent, stem, suffix]: parent is the sequence of    *)
(* folder names, stem the sequence of name tokens ("x" followed by         *)
(* "_part1" is the file name stem x_part1), suffix the extension.  The     *)
(* file system is fs (path -> content, defined on the files that exist)    *)
(* and dirs (the folders that exist).  A content is [size, data]: size in  *)
(* bytes, data a tag telling where the bytes come from.                    *)
(***************************************************************************)
EXTENDS Integers, Sequences, FiniteSets, TLC

VARIABLES
    mode,            \* which program runs: "Split", "Enhance" or "Move"
    ffmpegInstalled, \* whether `ffmpeg -version` succeeds on this machine
    config,          \* the values enhance_video.py imports from config
    dirs,            \* existing folders
    fs,              \* existing files: path -> content
    run,             \* number of the current process run
    pc,              \* position of the current run
    exitCode,        \* process exit code of the current run, -1 while it runs
    large_videos,    \* scan_and_split: the collected (file_path, size_mb) entries
    videos,          \* scan_and_enhance: the collected paths
    i,               \* number of loop iterations started in this run
    attempted,       \* paths handed to split_video / enhance_video in this run
    cur,             \* file_path of the current (or last) job
    fs0,             \* the files as they were when the current job started
    duration,        \* split_video: result of get_video_duration
    calls,           \* transcoder (ffmpeg) invocations issued by the current job
    ret,             \* return of the last job: "none", "True", "False", "raised"
    exc,             \* exception the last job ended with, "none" if none
    filter_chain,    \* enhance_video: the chain handed to ffmpeg
    success_count,
    fail_count,
    view_counts,     \* move_data: the viewCount values in analysis_results.json
    stats,           \* move_data: the statistics it returns
    items,           \* move_data: entries of os.listdir(source_folder) not yet taken
    item,            \* move_data: the subfolder entry being processed
    entries          \* move_data: entries of os.listdir(item_path) not yet taken

vars == << mode, ffmpegInstalled, config, dirs, fs, run, pc, exitCode,
           large_videos, videos, i, attempted, cur, fs0, duration, calls,
           ret, exc, filter_chain, success_count, fail_count,
           view_counts, stats, items, item, entries >>

\* the state of move_data, which the Split and Enhance runs leave alone
moveVars == << view_counts, stats, items, item, entries >>

(* ------------------------------ bounds --------------------------------- *)

\* how often the program is started
MaxRuns == 2

\* how many files the target folder of a Split run holds before the first run
MaxFiles == 1

(* ------------------------ video_splitter.py settings ------------------- *)

TARGET_FOLDER == << "target" >>

SIZE_LIMIT_MB == 200

ARCHIVE_FOLDER_NAME == "archive_over_200MB"

VIDEO_EXTENSIONS ==
    { ".mp4", ".avi", ".mov", ".mkv", ".wmv", ".flv", ".webm", ".m4v" }

BytesPerMB == 1024 * 1024

Limit == SIZE_LIMIT_MB * BytesPerMB

(* ------------------------------ paths ---------------------------------- *)

Path(parent, stem, suffix) ==
    [ parent |-> parent, stem |-> stem, suffix |-> suffix ]

NoPath == Path(<< >>, << >>, "")

\* str.lower() on the extensions that occur
Lower(s) ==
    CASE s = ".MP4" -> ".mp4"
      [] s = ".MKV" -> ".mkv"
      [] s = ".TXT" -> ".txt"
      [] OTHER -> s

IsPrefix(a, b) ==
    /\ Len(a) <= Len(b)
    /\ SubSeq(b, 1, Len(a)) = a

Exists(p) == p \in DOMAIN fs

Unlink(files, p) == [ q \in (DOMAIN files) \ {p} |-> files[q] ]

WriteFile(files, p, c) == [ q \in (DOMAIN files) \cup {p} |-> IF q = p THEN c ELSE files[q] ]

\* shutil.move: the destination is replaced, the source is gone
MoveFile(files, src, dst) ==
    [ q \in ((DOMAIN files) \ {src}) \cup {dst} |-> IF q = dst THEN files[src] ELSE files[q] ]

(* --------------------------- file contents ----------------------------- *)

\* the bytes of a file that was there before the first run
Original(p, size) ==
    [ size |-> size, data |-> << "orig" >> \o p.parent \o p.stem \o << p.suffix >> ]

\* what an ffmpeg invocation that exits non-zero may leave at its output path
Partial == [ size |-> 0, data |-> << "partial" >> ]

\* ffmpeg -t split_point -c copy (n = 1) and -ss split_point -c copy (n = 2),
\* split_point = duration / 2: the two halves of the stream, each about half
\* the bytes of the source
PartContent(src, n) ==
    [ size |-> IF n = 1 THEN src.size \div 2 ELSE src.size - (src.size \div 2),
      data |-> << IF n = 1 THEN "part1" ELSE "part2" >> \o src.data ]

(* --------------------------- video_splitter.py ------------------------- *)

\* st_size / (1024 * 1024), kept as a fraction
get_file_size_mb(files, p) == [ num |-> files[p].size, den |-> BytesPerMB ]

\* mutant: size_mb >= size_limit_mb
ExceedsLimit_AtLeast(size_mb, size_limit_mb) ==
    size_mb.num >= size_limit_mb * size_mb.den

\* size_mb > size_limit_mb
ExceedsLimit(size_mb, size_limit_mb) == size_mb.num > size_limit_mb * size_mb.den

\* what ffprobe can answer: exit status, whether stdout parses as a float, the value
ProbeOutputs ==
    { [ rc |-> 1, parsable |-> FALSE, value |-> 0 ],
      [ rc |-> 0, parsable |-> FALSE, value |-> 0 ],
      [ rc |-> 0, parsable |-> TRUE, value |-> 0 ],
      [ rc |-> 0, parsable |-> TRUE, value |-> 3600 ] }

ProbeMissing == [ rc |-> 1, parsable |-> FALSE, value |-> 0 ]

get_video_duration(out) ==
    IF out.rc # 0 THEN 0
    ELSE IF ~out.parsable THEN 0
    ELSE out.value

\* mutant: if duration < 0
Unsplittable_Negative(d) == d < 0

\* lines 57-58: if duration <= 0: return False
Unsplittable(d) == d <= 0

part1_path(file_path) ==
    Path(file_path.parent, file_path.stem \o << "_part1" >>, file_path.suffix)

part2_path(file_path) ==
    Path(file_path.parent, file_path.stem \o << "_part2" >>, file_path.suffix)

archive_folder(file_path) == file_path.parent \o << ARCHIVE_FOLDER_NAME >>

archive_path(file_path) ==
    Path(archive_folder(file_path), file_path.stem, file_path.suffix)

\* for file_path in folder.rglob('*'): is_file, suffix.lower() in VIDEO_EXTENSIONS,
\* size_mb > size_limit_mb
IsSplitCandidate(files, folder, p) ==
    /\ p \in DOMAIN files
    /\ IsPrefix(folder, p.parent)
    /\ Lower(p.suffix) \in VIDEO_EXTENSIONS
    /\ ExceedsLimit(get_file_size_mb(files, p), SIZE_LIMIT_MB)

SplitCandidates(files, folder) ==
    { p \in DOMAIN files : IsSplitCandidate(files, folder, p) }

\* large_videos after the scan loop.  The order in which the walk yields the
\* entries is the file system's: the list is kept as the set of its entries, and
\* the for loop takes, at each iteration, any entry it has not taken yet.
ScanLargeVideos(files, folder) ==
    { [ file_path |-> p, size_mb |-> get_file_size_mb(files, p) ] :
        p \in SplitCandidates(files, folder) }

(* --------------------------- enhance_video.py -------------------------- *)

INPUT_FOLDER == << "input" >>

OUTPUT_FOLDER == << "output" >>

\* the values of config the model reads, numbers as Python formats them
Profiles ==
    { [ TARGET_WIDTH |-> "3840", TARGET_HEIGHT |-> "2160",
        SCALE_ALGORITHM |-> "lanczos", SHARPEN_AMOUNT |-> "1.0",
        SHARPEN_LUMA_X |-> "5", SHARPEN_LUMA_Y |-> "7",
        DENOISE_LUMA_STRENGTH |-> "4", DENOISE_CHROMA_STRENGTH |-> "3" ],
      [ TARGET_WIDTH |-> "1920", TARGET_HEIGHT |-> "1080",
        SCALE_ALGORITHM |-> "bicubic", SHARPEN_AMOUNT |-> "1.5",
        SHARPEN_LUMA_X |-> "3", SHARPEN_LUMA_Y |-> "3",
        DENOISE_LUMA_STRENGTH |-> "2", DENOISE_CHROMA_STRENGTH |-> "6" ] }

Configs ==
    { [ profile |-> pr, ENABLE_DENOISE |-> dn, OUTPUT_SUFFIX |-> "_enhanced",
        OUTPUT_FORMAT |-> fmt ] :
        pr \in Profiles, dn \in BOOLEAN, fmt \in { "", ".mp4" } }

RECURSIVE Join(_, _)
\* sep.join(parts) on token sequences
Join(parts, sep) ==
    IF parts = << >> THEN << >>
    ELSE IF Len(parts) = 1 THEN parts[1]
    ELSE parts[1] \o << sep >> \o Join(Tail(parts), sep)

scale_filter(c) ==
    << "scale=", c.profile.TARGET_WIDTH, ":", c.profile.TARGET_HEIGHT,
       ":flags=", c.profile.SCALE_ALGORITHM >>

sharpen_filter(c) ==
    << "unsharp=", c.profile.SHARPEN_LUMA_X, ":", c.profile.SHARPEN_LUMA_Y, ":",
       c.profile.SHARPEN_AMOUNT, ":", c.profile.SHARPEN_LUMA_X, ":",
       c.profile.SHARPEN_LUMA_Y, ":", "0" >>

denoise_filter(c) ==
    << "hqdn3d=", c.profile.DENOISE_LUMA_STRENGTH, ":",
       c.profile.DENOISE_CHROMA_STRENGTH, ":", c.profile.DENOISE_LUMA_STRENGTH,
       ":", c.profile.DENOISE_CHROMA_STRENGTH >>

\* mutant: the sharpen stage is appended before the scale stage
Filters_SharpenFirst(c) ==
    LET f2 == << sharpen_filter(c), scale_filter(c) >>
    IN IF c.ENABLE_DENOISE THEN Append(f2, denoise_filter(c)) ELSE f2

\* the filters list of build_filter_chain after its appends
Filters(c) ==
    LET f2 == << scale_filter(c), sharpen_filter(c) >>
    IN IF c.ENABLE_DENOISE THEN Append(f2, denoise_filter(c)) ELSE f2

build_filter_chain(c) == Join(Filters(c), ",")

get_output_filename(c, input_path) ==
    LET ext == IF c.OUTPUT_FORMAT # "" THEN c.OUTPUT_FORMAT ELSE input_path.suffix
    IN Path(OUTPUT_FOLDER, input_path.stem \o << c.OUTPUT_SUFFIX >>, ext)

\* for file_path in input_folder.iterdir(): is_file, suffix.lower() in VIDEO_EXTENSIONS
ScanVideos(files, folder) ==
    { p \in DOMAIN files : p.parent = folder /\ Lower(p.suffix) \in VIDEO_EXTENSIONS }

\* what a successful enhancement of src leaves at the output path
Enhanced(src) == [ size |-> src.size, data |-> << "enhanced" >> \o src.data ]

\* the ffmpeg invocation of enhance_video: exit 0 leaves the output; a non-zero
\* exit leaves the output path as it was or a partial file there
FfmpegEnhance(files, input_path, output_path, rc, wrote) ==
    IF rc = 0 THEN WriteFile(files, output_path, Enhanced(files[input_path]))
    ELSE IF wrote THEN WriteFile(files, output_path, Partial)
    ELSE files

EnhancePool ==
    { Path(INPUT_FOLDER, << "a" >>, ".mp4"),
      Path(INPUT_FOLDER, << "a" >>, ".MKV"),
      Path(INPUT_FOLDER, << "n" >>, ".txt") }

(* ------------------------------- Init ---------------------------------- *)

\* the files that may be in the target folder before the first run, each with
\* the sizes it may have
SplitPool ==
    { [ path |-> Path(TARGET_FOLDER, << "x" >>, ".MP4"),
        sizes |-> { Limit, Limit + 1, 2 * Limit, 2 * Limit + 2 } ],
      [ path |-> Path(TARGET_FOLDER, << "x", "_part1" >>, ".MP4"),
        sizes |-> { Limit + 1 } ],
      [ path |-> Path(TARGET_FOLDER, << "n" >>, ".txt"),
        sizes |-> { 2 * Limit + 2 } ] }

SizesOf(pool, p) == UNION { e.sizes : e \in { d \in pool : d.path = p } }

\* the ways up to n files of the pool can be there
InitialFiles(pool, n) ==
    UNION { { [ p \in S |-> Original(p, sz[p]) ] :
                sz \in { f \in [ S -> UNION { e.sizes : e \in pool } ] :
                            \A p \in S : f[p] \in SizesOf(pool, p) } } :
            S \in { T \in SUBSET { e.path : e \in pool } : Cardinality(T) <= n } }

NoFiles == [ p \in {} |-> Partial ]

\* video_splitter.py imports no config
NoConfig == CHOOSE c \in Configs : ~c.ENABLE_DENOISE /\ c.OUTPUT_FORMAT = ""

JobReset ==
    /\ cur = NoPath
    /\ fs0 = NoFiles
    /\ duration = 0
    /\ calls = 0
    /\ ret = "none"
    /\ exc = "none"
    /\ filter_chain = << >>

RunReset ==
    /\ pc = "main"
    /\ exitCode = -1
    /\ large_videos = {}
    /\ videos = {}
    /\ i = 0
    /\ attempted = {}
    /\ success_count = 0
    /\ fail_count = 0
    /\ JobReset

InitSplit ==
    /\ mode = "Split"
    /\ config = NoConfig
    /\ \/ /\ dirs = {}
          /\ fs = NoFiles
       \/ /\ dirs = { TARGET_FOLDER }
          /\ fs \in InitialFiles(SplitPool, MaxFiles)

InitEnhance ==
    /\ mode = "Enhance"
    /\ config \in Configs
    /\ \/ /\ dirs = {}
          /\ fs = NoFiles
       \/ /\ dirs = { INPUT_FOLDER }
          /\ \E S \in SUBSET EnhancePool :
               fs = [ p \in S |-> Original(p, Limit) ]

\* move_data has not been called
MoveReset ==
    /\ stats = [ videos_moved |-> 0, data_folders_moved |-> 0, files_moved |-> 0,
                 target_folder |-> << >> ]
    /\ items = {}
    /\ item = NoPath
    /\ entries = {}

Init ==
    /\ ffmpegInstalled \in BOOLEAN
    /\ run = 1
    /\ RunReset
    /\ MoveReset
    /\ view_counts = {}
    /\ (InitSplit \/ InitEnhance)

(* ------------------------------ main ----------------------------------- *)

check_ffmpeg == ffmpegInstalled

\* main: sys.exit(1) when ffmpeg is not found, else the scan
Main ==
    /\ pc = "main"
    /\ IF ~check_ffmpeg
       THEN /\ pc' = "exit"
            /\ exitCode' = 1
       ELSE /\ pc' = "scan"
            /\ UNCHANGED exitCode
    /\ UNCHANGED moveVars
    /\ UNCHANGED << mode, ffmpegInstalled, config, dirs, fs, run, large_videos,
                    videos, i, attempted, cur, fs0, duration, calls, ret, exc,
                    filter_chain, success_count, fail_count >>

\* scan_and_split up to the loop: the folder check and the recursive scan
ScanSplit ==
    /\ pc = "scan"
    /\ mode = "Split"
    /\ IF TARGET_FOLDER \notin dirs \/ ScanLargeVideos(fs, TARGET_FOLDER) = {}
       THEN /\ pc' = "exit"
            /\ exitCode' = 0
            /\ UNCHANGED large_videos
       ELSE /\ large_videos' = ScanLargeVideos(fs, TARGET_FOLDER)
            /\ pc' = "loop"
            /\ UNCHANGED exitCode
    /\ UNCHANGED i
    /\ UNCHANGED moveVars
    /\ UNCHANGED << mode, ffmpegInstalled, config, dirs, fs, run, videos,
                    attempted, cur, fs0, duration, calls, ret, exc,
                    filter_chain, success_count, fail_count >>

\* the entries of large_videos the for loop has not taken yet
Remaining == { e \in large_videos : e.file_path \notin attempted }

\* the for loop of scan_and_split is exhausted: the run returns, exit code 0
SplitDone ==
    /\ pc = "loop"
    /\ mode = "Split"
    /\ Remaining = {}
    /\ pc' = "exit"
    /\ exitCode' = 0
    /\ UNCHANGED moveVars
    /\ UNCHANGED << mode, ffmpegInstalled, config, dirs, fs, run, large_videos,
                    videos, i, attempted, cur, fs0, duration, calls, ret, exc,
                    filter_chain, success_count, fail_count >>

\* the job ends with return value r: back to the loop
JobReturns(r, e) ==
    /\ ret' = r
    /\ exc' = e
    /\ pc' = "loop"

\* split_video, lines 52-58: called for large_videos[i]; probe the duration
SplitProbe ==
    /\ pc = "loop"
    /\ mode = "Split"
    /\ \E entry \in Remaining :
       LET file_path == entry.file_path IN
       /\ cur' = file_path
       /\ fs0' = fs
       /\ attempted' = attempted \cup { file_path }
       /\ i' = i + 1
       /\ calls' = 0
       /\ \E out \in IF Exists(file_path) THEN ProbeOutputs ELSE { ProbeMissing } :
            /\ duration' = get_video_duration(out)
            /\ IF Unsplittable(get_video_duration(out))
               THEN JobReturns("False", "none")
               ELSE /\ pc' = "part1"
                    /\ ret' = "none"
                    /\ exc' = "none"
    /\ UNCHANGED moveVars
    /\ UNCHANGED << mode, ffmpegInstalled, config, dirs, fs, run, exitCode,
                    large_videos, videos, filter_chain, success_count, fail_count >>

\* one ffmpeg -y -i file_path ... out_path invocation: exit 0 leaves the part at
\* out_path; a non-zero exit leaves out_path as it was or a partial file there
Ffmpeg(files, file_path, out_path, n, rc, wrote) ==
    IF rc = 0 THEN WriteFile(files, out_path, PartContent(files[file_path], n))
    ELSE IF wrote THEN WriteFile(files, out_path, Partial)
    ELSE files

\* split_video, lines 93-94: subprocess.run(cmd1, check=True)
SplitPart1 ==
    /\ pc = "part1"
    /\ calls' = calls + 1
    /\ \E rc \in IF Exists(cur) THEN { 0, 1 } ELSE { 1 }, wrote \in BOOLEAN :
         /\ fs' = Ffmpeg(fs, cur, part1_path(cur), 1, rc, wrote)
         /\ pc' = IF rc = 0 THEN "part2" ELSE "cleanup"
    /\ UNCHANGED moveVars
    /\ UNCHANGED << mode, ffmpegInstalled, config, dirs, run, exitCode,
                    large_videos, videos, i, attempted, cur, fs0, duration, ret,
                    exc, filter_chain, success_count, fail_count >>

\* split_video, lines 96-97: subprocess.run(cmd2, check=True)
SplitPart2 ==
    /\ pc = "part2"
    /\ calls' = calls + 1
    /\ \E rc \in IF Exists(cur) THEN { 0, 1 } ELSE { 1 }, wrote \in BOOLEAN :
         /\ fs' = Ffmpeg(fs, cur, part2_path(cur), 2, rc, wrote)
         /\ pc' = IF rc = 0 THEN "archive" ELSE "cleanup"
    /\ UNCHANGED moveVars
    /\ UNCHANGED << mode, ffmpegInstalled, config, dirs, run, exitCode,
                    large_videos, videos, i, attempted, cur, fs0, duration, ret,
                    exc, filter_chain, success_count, fail_count >>

\* split_video, lines 106-115: mkdir(exist_ok=True) and shutil.move; an OSError
\* of either is caught nowhere: it ends split_video, scan_and_split and main
SplitArchive ==
    /\ pc = "archive"
    /\ \E os \in { "ok", "mkdir fails", "move fails" } :
         IF os = "ok"
         THEN /\ dirs' = dirs \cup { archive_folder(cur) }
              /\ fs' = MoveFile(fs, cur, archive_path(cur))
              /\ JobReturns("True", "none")
              /\ UNCHANGED exitCode
         ELSE /\ dirs' = IF os = "move fails"
                         THEN dirs \cup { archive_folder(cur) } ELSE dirs
              /\ ret' = "raised"
              /\ exc' = "OSError"
              /\ pc' = "exit"
              /\ exitCode' = 1
              /\ UNCHANGED fs
    /\ UNCHANGED moveVars
    /\ UNCHANGED << mode, ffmpegInstalled, config, run, large_videos, videos,
                    i, attempted, cur, fs0, duration, calls, filter_chain,
                    success_count, fail_count >>

\* mutant: only part2_path is unlinked
Cleanup_Part2Only(files, file_path) ==
    IF part2_path(file_path) \in DOMAIN files
    THEN Unlink(files, part2_path(file_path)) ELSE files

\* lines 120-123: unlink part1_path and part2_path if they exist
Cleanup(files, file_path) ==
    LET f1 == IF part1_path(file_path) \in DOMAIN files
              THEN Unlink(files, part1_path(file_path)) ELSE files
    IN IF part2_path(file_path) \in DOMAIN f1
       THEN Unlink(f1, part2_path(file_path)) ELSE f1

\* split_video, lines 117-124: except subprocess.CalledProcessError
SplitCleanup ==
    /\ pc = "cleanup"
    /\ fs' = Cleanup(fs, cur)
    /\ JobReturns("False", "CalledProcessError")
    /\ UNCHANGED moveVars
    /\ UNCHANGED << mode, ffmpegInstalled, config, dirs, run, exitCode,
                    large_videos, videos, i, attempted, cur, fs0, duration,
                    calls, filter_chain, success_count, fail_count >>

\* scan_and_enhance up to the loop: the folder checks and the listing
ScanEnhance ==
    /\ pc = "scan"
    /\ mode = "Enhance"
    /\ IF INPUT_FOLDER \notin dirs
       THEN /\ dirs' = dirs \cup { INPUT_FOLDER }
            /\ pc' = "exit"
            /\ exitCode' = 0
            /\ UNCHANGED videos
       ELSE /\ dirs' = dirs \cup { OUTPUT_FOLDER }
            /\ IF ScanVideos(fs, INPUT_FOLDER) = {}
               THEN /\ pc' = "exit"
                    /\ exitCode' = 0
                    /\ UNCHANGED videos
               ELSE /\ videos' = ScanVideos(fs, INPUT_FOLDER)
                    /\ pc' = "loop"
                    /\ UNCHANGED exitCode
    /\ UNCHANGED moveVars
    /\ UNCHANGED << mode, ffmpegInstalled, config, fs, run, large_videos, i,
                    attempted, cur, fs0, duration, calls, ret, exc,
                    filter_chain, success_count, fail_count >>

\* one iteration of the loop of scan_and_enhance, lines 224-251, with its call of
\* enhance_video; get_video_info only reads
EnhanceJob ==
    /\ pc = "loop"
    /\ mode = "Enhance"
    /\ \E video_path \in videos \ attempted :
       LET output_path == get_output_filename(config, video_path) IN
       /\ cur' = video_path
       /\ fs0' = fs
       /\ attempted' = attempted \cup { video_path }
       /\ i' = i + 1
       /\ filter_chain' = build_filter_chain(config)
       /\ calls' = 1
       /\ \E rc \in { 0, 1 }, wrote \in BOOLEAN :
            /\ fs' = FfmpegEnhance(fs, video_path, output_path, rc, wrote)
            /\ IF rc = 0
               THEN /\ ret' = "True"
                    /\ success_count' = success_count + 1
                    /\ UNCHANGED fail_count
               ELSE /\ ret' = "False"
                    /\ fail_count' = fail_count + 1
                    /\ UNCHANGED success_count
    /\ UNCHANGED moveVars
    /\ UNCHANGED << mode, ffmpegInstalled, config, dirs, run, pc, exitCode,
                    large_videos, videos, duration, exc >>

\* the for loop of scan_and_enhance is exhausted: the run returns, exit code 0
EnhanceDone ==
    /\ pc = "loop"
    /\ mode = "Enhance"
    /\ videos \ attempted = {}
    /\ pc' = "exit"
    /\ exitCode' = 0
    /\ UNCHANGED moveVars
    /\ UNCHANGED << mode, ffmpegInstalled, config, dirs, fs, run, large_videos,
                    videos, i, attempted, cur, fs0, duration, calls, ret, exc,
                    filter_chain, success_count, fail_count >>

\* the program is started again on what the last run left
Rerun ==
    /\ pc = "exit"
    /\ run < MaxRuns
    /\ run' = run + 1
    /\ pc' = "main"
    /\ exitCode' = -1
    /\ large_videos' = {}
    /\ videos' = {}
    /\ i' = 0
    /\ attempted' = {}
    /\ success_count' = 0
    /\ fail_count' = 0
    /\ cur' = NoPath
    /\ fs0' = NoFiles
    /\ duration' = 0
    /\ calls' = 0
    /\ ret' = "none"
    /\ exc' = "none"
    /\ filter_chain' = << >>
    /\ UNCHANGED moveVars
    /\ UNCHANGED << mode, ffmpegInstalled, config, dirs, fs >>

Next ==
    \/ Main
    \/ ScanSplit
    \/ SplitProbe
    \/ SplitPart1
    \/ SplitPart2
    \/ SplitArchive
    \/ SplitCleanup
    \/ SplitDone
    \/ ScanEnhance
    \/ EnhanceJob
    \/ EnhanceDone
    \/ Rerun

Spec == Init /\ [][Next]_vars

(* ------------------------------ move_data.py --------------------------- *)

\* how many files the source folder of a Move run holds besides the manifest
MaxSourceFiles == 3

\* the values move_data.py imports from config; which extensions count as
\* video is the installation's choice
MoveConfigs ==
    { [ SOURCE_FOLDER |-> << "source" >>,
        TARGET_ROOT_FOLDER |-> << "root" >>,
        VIDEO_EXTENSIONS |-> ext,
        VIDEO_SUBFOLDER_NAME |-> "Video",
        DATA_SUBFOLDER_NAME |-> "DATA",
        ANALYSIS_JSON_FILENAME |-> [ stem |-> << "analysis_results" >>, suffix |-> ".json" ] ] :
        ext \in { { ".mp4" }, { ".mp4", ".mkv" } } }

\* datetime.now().strftime(DATE_FORMAT): the day of the run
date_str == "251217"

format_view_count_simple(count) ==
    IF count >= 1000000 THEN ToString(count \div 1000000) \o "M"
    ELSE IF count >= 1000 THEN ToString(count \div 1000) \o "K"
    ELSE ToString(count)

\* (min(view_counts), max(view_counts)); the caller has ruled out the empty list
get_view_count_range(counts) ==
    [ min_views |-> CHOOSE m \in counts : \A n \in counts : m <= n,
      max_views |-> CHOOSE m \in counts : \A n \in counts : m >= n ]

create_target_folder_name(min_views, max_views) ==
    date_str \o "_" \o format_view_count_simple(min_views) \o "-"
             \o format_view_count_simple(max_views)

\* os.path.splitext(filename)[1].lower() in VIDEO_EXTENSIONS
is_video_file(c, filename) == Lower(filename.suffix) \in c.VIDEO_EXTENSIONS

\* the folder an entry names, if it names one
AsFolder(p) == p.parent \o p.stem

\* os.listdir(folder): the files and the folders directly in it
os_listdir(folders, listed, folder) ==
    { p \in DOMAIN listed : p.parent = folder }
        \cup { Path(folder, << d[Len(d)] >>, "") :
                 d \in { e \in folders : Len(e) = Len(folder) + 1 /\ IsPrefix(folder, e) } }

isdir(folders, p) == p.suffix = "" /\ AsFolder(p) \in folders

isfile(listed, p) == p \in DOMAIN listed

\* os.makedirs(folder, exist_ok=True): the folder and its missing ancestors
makedirs(folders, folder) ==
    folders \cup { SubSeq(folder, 1, n) : n \in 1..Len(folder) }

json_path == Path(config.SOURCE_FOLDER, config.ANALYSIS_JSON_FILENAME.stem,
                  config.ANALYSIS_JSON_FILENAME.suffix)

target_folder ==
    Append(config.TARGET_ROOT_FOLDER,
           create_target_folder_name(get_view_count_range(view_counts).min_views,
                                     get_view_count_range(view_counts).max_views))

video_folder == Append(stats.target_folder, config.VIDEO_SUBFOLDER_NAME)

data_folder == Append(stats.target_folder, config.DATA_SUBFOLDER_NAME)

item_path == AsFolder(item)

data_subfolder == data_folder \o item.stem

(* ------------------------------ Move: Init ----------------------------- *)

SubfolderA == << "source", "a" >>

SubfolderB == << "source", "b" >>

\* what the source folder can hold: same-named files in two subfolders, an
\* upper-case extension, and a file beside the subfolders
MovePool ==
    { Path(SubfolderA, << "v" >>, ".mp4"),
      Path(SubfolderA, << "n" >>, ".txt"),
      Path(SubfolderB, << "v" >>, ".mp4"),
      Path(SubfolderB, << "n" >>, ".txt"),
      Path(SubfolderB, << "w" >>, ".MKV"),
      Path(<< "source" >>, << "readme" >>, ".txt") }

\* the viewCount lists the manifest can hold
ViewCountLists == { {}, { 999 }, { 112000, 2100000 } }

\* a file an earlier Move run of the same day and range left in the layout
Earlier == [ size |-> 1, data |-> << "earlier" >> ]

InitMove ==
    /\ mode = "Move"
    /\ config \in MoveConfigs
    /\ view_counts \in ViewCountLists
    /\ \/ /\ dirs \in { {}, { config.SOURCE_FOLDER }, { config.TARGET_ROOT_FOLDER } }
          /\ fs = NoFiles
       \/ \E S \in { T \in SUBSET MovePool : Cardinality(T) <= MaxSourceFiles },
             manifest \in SUBSET { json_path },
             nested \in SUBSET { SubfolderA \o << "k" >> },
             earlier \in BOOLEAN :
            /\ earlier => view_counts # {}
            /\ dirs = { config.SOURCE_FOLDER, config.TARGET_ROOT_FOLDER,
                        SubfolderA, SubfolderB }
                        \cup nested
                        \cup ( IF earlier
                               THEN makedirs({}, Append(target_folder, config.VIDEO_SUBFOLDER_NAME))
                               ELSE {} )
            /\ fs = [ p \in S \cup manifest
                            \cup ( IF earlier
                                   THEN { Path(Append(target_folder, config.VIDEO_SUBFOLDER_NAME),
                                               << "v" >>, ".mp4") }
                                   ELSE {} ) |->
                        IF p \in S \cup manifest THEN Original(p, 1) ELSE Earlier ]

MoveInit ==
    /\ ffmpegInstalled = FALSE
    /\ run = 1
    /\ RunReset
    /\ MoveReset
    /\ InitMove

(* ------------------------------ Move: actions -------------------------- *)

\* what no step of a Move run changes
moveFrame == << mode, ffmpegInstalled, config, run, large_videos, videos, i,
                attempted, cur, duration, calls, filter_chain, success_count,
                fail_count, view_counts >>

\* main: an exception of move_data is printed and the process exits with 1
MoveRaises(e) ==
    /\ ret' = "raised"
    /\ exc' = e
    /\ exitCode' = 1
    /\ pc' = "exit"

\* move_data up to its for loop: the three existence checks, the view count
\* range, the target folder with its two branches, os.listdir(source_folder)
MoveStart ==
    /\ mode = "Move"
    /\ pc = "main"
    /\ fs0' = fs
    /\ IF \/ config.SOURCE_FOLDER \notin dirs
          \/ config.TARGET_ROOT_FOLDER \notin dirs
          \/ ~Exists(json_path)
       THEN /\ MoveRaises("FileNotFoundError")
            /\ UNCHANGED << dirs, stats, items >>
       ELSE IF view_counts = {}
       THEN /\ MoveRaises("ValueError")
            /\ UNCHANGED << dirs, stats, items >>
       ELSE /\ stats' = [ stats EXCEPT !.target_folder = target_folder ]
            /\ dirs' = makedirs(makedirs(dirs, Append(target_folder, config.VIDEO_SUBFOLDER_NAME)),
                                Append(target_folder, config.DATA_SUBFOLDER_NAME))
            /\ items' = os_listdir(dirs, fs, config.SOURCE_FOLDER)
            /\ pc' = "loop"
            /\ UNCHANGED << ret, exc, exitCode >>
    /\ UNCHANGED << fs, item, entries >>
    /\ UNCHANGED moveFrame

\* one iteration of `for item in os.listdir(source_folder)` up to the inner
\* loop: the manifest goes to the data branch, a folder gets its data
\* subfolder and is listed, anything else is passed over
MoveItem ==
    /\ mode = "Move"
    /\ pc = "loop"
    /\ \E it \in items :
        /\ items' = items \ { it }
        /\ IF [ stem |-> it.stem, suffix |-> it.suffix ] = config.ANALYSIS_JSON_FILENAME
           THEN \/ /\ fs' = MoveFile(fs, it, Path(data_folder, it.stem, it.suffix))
                   /\ stats' = [ stats EXCEPT !.files_moved = @ + 1 ]
                   /\ UNCHANGED << dirs, item, entries, pc, ret, exc, exitCode >>
                \/ /\ MoveRaises("OSError")
                   /\ UNCHANGED << fs, dirs, stats, item, entries >>
           ELSE IF isdir(dirs, it)
           THEN /\ item' = it
                /\ dirs' = makedirs(dirs, data_folder \o it.stem)
                /\ entries' = os_listdir(dirs, fs, AsFolder(it))
                /\ pc' = "files"
                /\ UNCHANGED << fs, stats, ret, exc, exitCode >>
           ELSE UNCHANGED << fs, dirs, stats, item, entries, pc, ret, exc, exitCode >>
    /\ UNCHANGED fs0
    /\ UNCHANGED moveFrame

\* one iteration of `for file in os.listdir(item_path)`: a regular file goes
\* to the video branch or to the data subfolder, by its extension
MoveEntry ==
    /\ mode = "Move"
    /\ pc = "files"
    /\ \E file \in entries :
        /\ entries' = entries \ { file }
        /\ IF isfile(fs, file)
           THEN \/ /\ IF is_video_file(config, file)
                      THEN /\ fs' = MoveFile(fs, file, Path(video_folder, file.stem, file.suffix))
                           /\ stats' = [ stats EXCEPT !.videos_moved = @ + 1 ]
                      ELSE /\ fs' = MoveFile(fs, file, Path(data_subfolder, file.stem, file.suffix))
                           /\ stats' = [ stats EXCEPT !.files_moved = @ + 1 ]
                   /\ UNCHANGED << pc, ret, exc, exitCode >>
                \/ /\ MoveRaises("OSError")
                   /\ UNCHANGED << fs, stats >>
           ELSE UNCHANGED << fs, stats, pc, ret, exc, exitCode >>
    /\ UNCHANGED << dirs, items, item, fs0 >>
    /\ UNCHANGED moveFrame

\* after the inner loop: the folder is counted, and removed if it is empty
MoveFolderDone ==
    /\ mode = "Move"
    /\ pc = "files"
    /\ entries = {}
    /\ stats' = [ stats EXCEPT !.data_folders_moved = @ + 1 ]
    /\ dirs' = IF os_listdir(dirs, fs, item_path) = {} THEN dirs \ { item_path } ELSE dirs
    /\ item' = NoPath
    /\ pc' = "loop"
    /\ UNCHANGED << fs, fs0, items, entries, ret, exc, exitCode >>
    /\ UNCHANGED moveFrame

\* the for loop is over: move_data returns stats, main returns 0
MoveReturn ==
    /\ mode = "Move"
    /\ pc = "loop"
    /\ items = {}
    /\ ret' = "returned"
    /\ exitCode' = 0
    /\ pc' = "exit"
    /\ UNCHANGED << fs, fs0, dirs, stats, items, item, entries, exc >>
    /\ UNCHANGED moveFrame

MoveNext ==
    \/ MoveStart
    \/ MoveItem
    \/ MoveEntry
    \/ MoveFolderDone
    \/ MoveReturn

MoveSpec == MoveInit /\ [][MoveNext]_vars

(* ============================== claims ================================= *)

\* the paths of the entries of large_videos
Candidates == { e.file_path : e \in large_videos }

\* the scan of a Split run has just filled large_videos; no job has started
JustScanned == mode = "Split" /\ pc = "loop" /\ attempted = {}

\* a Split run has ended that had candidates
SplitRunEnded == mode = "Split" /\ pc = "exit" /\ large_videos # {}

Parent(p) == SubSeq(p.parent, 1, Len(p.parent) - 1)

\* q lies in an archive folder and holds the bytes of the file that was at the
\* same name beside that folder before the first run
IsArchivedOriginal(files, q) ==
    /\ q \in DOMAIN files
    /\ Len(q.parent) > Len(TARGET_FOLDER)
    /\ q.parent[Len(q.parent)] = ARCHIVE_FOLDER_NAME
    /\ files[q] = Original(Path(Parent(q), q.stem, q.suffix), files[q].size)

(* C1: when a Split run ends, every scanned candidate has been handed to      *)
(* split_video exactly once, and it is either archived with both parts beside *)
(* its original location, or still at its path with neither part present.     *)
C1_SplitEndState ==
    SplitRunEnded =>
        /\ i = Cardinality(large_videos)
        /\ \A p \in Candidates :
            /\ p \in attempted
            /\ \/ /\ archive_path(p) \in DOMAIN fs
                  /\ part1_path(p) \in DOMAIN fs
                  /\ part2_path(p) \in DOMAIN fs
               \/ /\ p \in DOMAIN fs
                  /\ part1_path(p) \notin DOMAIN fs
                  /\ part2_path(p) \notin DOMAIN fs

(* C2: when one of the two ffmpeg invocations of split_video fails, the job   *)
(* returns False, neither part path exists afterwards, the original is at its *)
(* path with its bytes, and its archive path is as it was before the job.     *)
C2_FailedSplitCleansUp ==
    (mode = "Split" /\ exc = "CalledProcessError") =>
        /\ ret = "False"
        /\ part1_path(cur) \notin DOMAIN fs
        /\ part2_path(cur) \notin DOMAIN fs
        /\ cur \in DOMAIN fs
        /\ cur \in DOMAIN fs0
        /\ fs[cur] = fs0[cur]
        /\ archive_path(cur) \in DOMAIN fs <=> archive_path(cur) \in DOMAIN fs0
        /\ archive_path(cur) \in DOMAIN fs =>
               fs[archive_path(cur)] = fs0[archive_path(cur)]

\* the second invocation failed after the first had written part 1
C2_Witness ==
    /\ mode = "Split"
    /\ exc = "CalledProcessError"
    /\ calls = 2
    /\ part1_path(cur) \notin DOMAIN fs

(* C3: when the probe gives no usable duration (ffprobe fails, its output     *)
(* does not parse, or the duration is <= 0), split_video returns False        *)
(* without an ffmpeg invocation, the files are as before the job, and the     *)
(* loop goes on to the next candidate.                                        *)
C3_NoDurationNoSplit ==
    (mode = "Split" /\ cur # NoPath /\ duration <= 0) =>
        /\ ret = "False"
        /\ exc = "none"
        /\ calls = 0
        /\ fs = fs0
        /\ \/ pc = "loop"
           \/ pc = "exit" /\ exitCode = 0 /\ Remaining = {}

\* a job failed for want of a duration and another candidate is still to come
C3_Witness ==
    /\ mode = "Split"
    /\ cur # NoPath
    /\ duration <= 0
    /\ ret = "False"
    /\ pc = "loop"
    /\ Remaining # {}

(* C4: a scan after a successful split does not yield the original, now in    *)
(* the archive folder, as a candidate.                                        *)
C4_RescanSkipsArchived ==
    JustScanned => \A p \in Candidates : ~IsArchivedOriginal(fs, p)

(* C6: in a Split run every scanned candidate is attempted: each job ends by  *)
(* returning True or False, whatever error it hits, the run ends normally,    *)
(* and after an archival failure the original is still at its path.           *)
C6_EveryCandidateAttempted ==
    /\ SplitRunEnded =>
          /\ attempted = Candidates
          /\ ret \in { "True", "False" }
          /\ exitCode = 0
    /\ (mode = "Split" /\ exc = "OSError") =>
          /\ cur \in DOMAIN fs
          /\ fs[cur] = fs0[cur]

\* the file a part path belongs to: the part path without its last stem token
SourceOf(p) == Path(p.parent, SubSeq(p.stem, 1, Len(p.stem) - 1), p.suffix)

\* p holds part 1 or part 2 of the file that now lies at the archive path of
\* p's source: the output of a split that succeeded
IsPartOfArchived(files, p) ==
    /\ p \in DOMAIN files
    /\ Len(p.stem) >= 2
    /\ p.stem[Len(p.stem)] \in { "_part1", "_part2" }
    /\ archive_path(SourceOf(p)) \in DOMAIN files
    /\ files[p] = PartContent(files[archive_path(SourceOf(p))],
                              IF p.stem[Len(p.stem)] = "_part1" THEN 1 ELSE 2)

ArchivedSize(files, p) == files[archive_path(SourceOf(p))].size

RootFolder == IF mode = "Split" THEN TARGET_FOLDER ELSE INPUT_FOLDER

PreconditionFails == ~ffmpegInstalled \/ RootFolder \notin dirs

(* C7: a run ends with a non-zero exit code exactly when a precondition fails *)
(* (ffmpeg missing, or the root / input folder absent), and then it ends      *)
(* before any scan result or job; every other run ends with exit code 0.      *)
C7_ExitCode ==
    [][ (pc # "exit" /\ pc' = "exit") =>
            /\ (exitCode' # 0) <=> PreconditionFails
            /\ PreconditionFails => (attempted = {} /\ pc \in { "main", "scan" })
      ]_vars

(* C8: when ffmpeg exits non-zero for an Enhance job, the job is counted as   *)
(* failed, nothing the job wrote remains at its output path, the input file   *)
(* is untouched and the loop goes on.                                         *)
C8_FailedEnhanceLeavesNoOutput ==
    (mode = "Enhance" /\ ret = "False") =>
        LET output_path == get_output_filename(config, cur) IN
        /\ fail_count >= 1
        /\ output_path \in DOMAIN fs =>
               (output_path \in DOMAIN fs0 /\ fs[output_path] = fs0[output_path])
        /\ cur \in DOMAIN fs /\ fs[cur] = fs0[cur]
        /\ pc \in { "loop", "exit" }
        /\ exitCode \in { -1, 0 }

(* C9: within one run two distinct jobs have disjoint output paths: two       *)
(* Enhance inputs never map to one output file, with or without OUTPUT_FORMAT,*)
(* and the part paths of two Split candidates never coincide.                 *)
C9_DisjointOutputs ==
    /\ \A a, b \in videos :
          a # b => get_output_filename(config, a) # get_output_filename(config, b)
    /\ \A a, b \in Candidates :
          a # b => { part1_path(a), part2_path(a) }
                     \cap { part1_path(b), part2_path(b) } = {}

RECURSIVE SplitOn(_, _)
\* str.split(sep) on token sequences
SplitOn(tokens, sep) ==
    IF \A k \in 1 .. Len(tokens) : tokens[k] # sep THEN << tokens >>
    ELSE LET k == CHOOSE n \in 1 .. Len(tokens) :
                     tokens[n] = sep /\ \A m \in 1 .. (n - 1) : tokens[m] # sep
         IN << SubSeq(tokens, 1, k - 1) >>
                \o SplitOn(SubSeq(tokens, k + 1, Len(tokens)), sep)

(* C10: the chain enhance_video hands to ffmpeg has its stages in the order   *)
(* scale, sharpen, denoise: stage 1 is scale with the target width, height    *)
(* and algorithm, stage 2 is unsharp with chroma amount 0, a hqdn3d stage is  *)
(* third and last exactly when denoise is enabled; it is a function of the    *)
(* profile alone, the same at every call.                                     *)
C10_FilterChainOrder ==
    (mode = "Enhance" /\ cur # NoPath) =>
        LET st == SplitOn(filter_chain, ",")
            pr == config.profile
        IN /\ Len(st) = IF config.ENABLE_DENOISE THEN 3 ELSE 2
           /\ Len(st[1]) = 6
           /\ st[1][1] = "scale="
           /\ st[1][2] = pr.TARGET_WIDTH
           /\ st[1][4] = pr.TARGET_HEIGHT
           /\ st[1][5] = ":flags="
           /\ st[1][6] = pr.SCALE_ALGORITHM
           /\ Len(st[2]) = 12
           /\ st[2][1] = "unsharp="
           /\ << st[2][2], st[2][4], st[2][6] >>
                 = << pr.SHARPEN_LUMA_X, pr.SHARPEN_LUMA_Y, pr.SHARPEN_AMOUNT >>
           /\ << st[2][8], st[2][10], st[2][12] >>
                 = << pr.SHARPEN_LUMA_X, pr.SHARPEN_LUMA_Y, "0" >>
           /\ config.ENABLE_DENOISE =>
                 /\ st[3][1] = "hqdn3d="
                 /\ << st[3][2], st[3][4], st[3][6], st[3][8] >>
                       = << pr.DENOISE_LUMA_STRENGTH, pr.DENOISE_CHROMA_STRENGTH,
                            pr.DENOISE_LUMA_STRENGTH, pr.DENOISE_CHROMA_STRENGTH >>
           /\ (pr.TARGET_WIDTH = "3840" /\ ~config.ENABLE_DENOISE) =>
                 filter_chain =
                     << "scale=", "3840", ":", "2160", ":flags=", "lanczos", ",",
                        "unsharp=", "5", ":", "7", ":", "1.0", ":", "5", ":", "7",
                        ":", "0" >>

\* the second job of an Enhance run with denoise enabled has built its chain
C10_Witness ==
    /\ mode = "Enhance"
    /\ cur # NoPath
    /\ i = 2
    /\ config.ENABLE_DENOISE
    /\ Len(SplitOn(filter_chain, ",")) = 3

\* the last Split job has ended: it returned, or an exception ended it
SplitJobEnded == mode = "Split" /\ cur # NoPath /\ ret # "none"

(* C11: a Split job removes or overwrites only files it created: a file that  *)
(* was at its part1 path, its part2 path or its archive path before the job   *)
(* is still there with the same bytes after the job, succeed or fail.         *)
C11_JobKeepsForeignFiles ==
    SplitJobEnded =>
        \A q \in { part1_path(cur), part2_path(cur), archive_path(cur) } :
            q \in DOMAIN fs0 => (q \in DOMAIN fs /\ fs[q] = fs0[q])

\* move_data has returned its statistics
MoveReturned == mode = "Move" /\ pc = "exit" /\ ret = "returned"

\* p is a file in an immediate subfolder of the source folder
InSubfolder(p) == Len(p.parent) = 2 /\ IsPrefix(config.SOURCE_FOLDER, p.parent)

\* where the layout puts p: the video branch, or the data branch under the
\* name of p's subfolder
TargetOf(p) ==
    IF is_video_file(config, p)
    THEN Path(video_folder, p.stem, p.suffix)
    ELSE Path(Append(data_folder, p.parent[2]), p.stem, p.suffix)

\* the files of the target layout
InLayout(listed) == { q \in DOMAIN listed : IsPrefix(stats.target_folder, q.parent) }

(* C12: move_data loses no file: after it returns, every regular file that    *)
(* was in an immediate subfolder of the source folder is at exactly one       *)
(* place of the target layout, the video branch for a video extension and     *)
(* else the data branch under its subfolder's name, and the layout has grown  *)
(* by exactly videos_moved + files_moved files.                               *)
C12_MoveLosesNoFile ==
    MoveReturned =>
        /\ \A p \in { q \in DOMAIN fs0 : InSubfolder(q) } :
               { q \in InLayout(fs) : fs[q] = fs0[p] } = { TargetOf(p) }
        /\ Cardinality(InLayout(fs)) =
               Cardinality(InLayout(fs0)) + stats.videos_moved + stats.files_moved

====
